---- MODULE Spec2Model ----
(***************************************************************************)
(* The magic-square sudoku of sudoku/sudoku.py: the integer program the    *)
(* script declares (729 binary variables choices[r][c][v], the integer     *)
(* magic_square, and the linear constraints added to prob), the solve step *)
(* as a depth-first branching search that fixes one variable at a time and *)
(* discards a node as soon as no value of the unfixed variables can        *)
(* satisfy some constraint of prob, and the report written afterwards.     *)
(* The complete nodes of the search are exactly the assignments that       *)
(* satisfy every constraint of prob. Which of them the solver returns is   *)
(* the solver's choice: the search may return a complete node or pass it   *)
(* over. When the tree is exhausted and no complete node was passed over,  *)
(* the status is Infeasible. The report is written whatever the status.    *)
(***************************************************************************)
EXTENDS Integers, Sequences, FiniteSets, Bags, TLC

VARIABLES
    givens,        \* the starting numbers, a set of <<r, c, v>>
    parts,         \* the blocks of constraint declarations that are in prob
    choices,       \* choices[r][c][v], the value of each binary variable
    magic_square,  \* the value of the integer variable magic_square_sum
    order,         \* the cells in the order in which the search fixes them
    fixed,         \* how many binaries of the branching order are fixed
    magicAt,       \* the value of fixed when magic_square was fixed
    back,          \* the search is on its way back up the tree
    found,         \* the search passed over a satisfying assignment
    status,        \* LpStatus[prob.status]
    sudokuout      \* what is written to sudokuout.txt

vars ==
    <<givens, parts, choices, magic_square, order, fixed, magicAt, back, found,
      status, sudokuout>>

----------------------------------------------------------------------------
(* Index sets and BOXES *)

VALS == 1..9
ROWS == 1..9
COLS == 1..9
DIAGONAL == 1..9

Cells == ROWS \X COLS

\* range(3)
Range3 == 0..2

\* BOXES[b][n]: the n-th square of box b; b runs over (i, j), n over (k, l)
BOXES ==
    [b \in 1..9 |->
        [n \in 1..9 |->
            <<3 * ((b - 1) \div 3) + ((n - 1) \div 3) + 1,
              3 * ((b - 1) % 3) + ((n - 1) % 3) + 1>>]]

\* A linear constraint: sum of coef * choices[r][c][v] over terms <<r, c, v, coef>>,
\* plus ms * magic_square, compared with rhs.
Con(terms, ms, sense, rhs) ==
    [terms |-> terms, ms |-> ms, sense |-> sense, rhs |-> rhs]

CellsOf(con) == {<<con.terms[i][1], con.terms[i][2]>> : i \in 1..Len(con.terms)}

VarsOf(con) ==
    {<<con.terms[i][1], con.terms[i][2], con.terms[i][3]>> : i \in 1..Len(con.terms)}

----------------------------------------------------------------------------
(* The constraints the script adds to prob, block by block *)

\* only one value in each square
CellConstraints ==
    {Con([v \in VALS |-> <<r, c, v, 1>>], 0, "==", 1) : r \in ROWS, c \in COLS}

RowConstraints ==
    {Con([c \in COLS |-> <<r, c, v, 1>>], 0, "==", 1) : v \in VALS, r \in ROWS}

ColConstraints ==
    {Con([r \in ROWS |-> <<r, c, v, 1>>], 0, "==", 1) : v \in VALS, c \in COLS}

\* Variant: the box loop indexes a row instead of the squares of a box
BoxTermsByRow(b, v) == [n \in 1..9 |-> <<b, n, v, 1>>]

BoxTerms(b, v) == [n \in 1..9 |-> <<BOXES[b][n][1], BOXES[b][n][2], v, 1>>]

BoxConstraints ==
    {Con(BoxTerms(b, v), 0, "==", 1) : v \in VALS, b \in 1..9}

\* choices[d][d][v] for d in DIAGONAL
MainDiagTerms(v) == [d \in DIAGONAL |-> <<d, d, v, 1>>]

\* Variant: the second diagonal repeats the first
AntiDiagTermsAsMain(v) == [d \in DIAGONAL |-> <<d, d, v, 1>>]

\* choices[10 - d][d][v] for d in DIAGONAL
AntiDiagTerms(v) == [d \in DIAGONAL |-> <<10 - d, d, v, 1>>]

DiagConstraints ==
    {Con(MainDiagTerms(v), 0, "==", 1) : v \in VALS}
        \cup {Con(AntiDiagTerms(v), 0, "==", 1) : v \in VALS}

\* Variant: the sums weight digit v by v + 1
MagicCoefNext(v) == v + 1

\* The coefficient of choices[..][..][v] in a magic square sum
MagicCoef(v) == v

\* Variant: the row sums start one column to the right
MagicRowTermsShifted(r) ==
    [n \in 1..27 |->
        LET v == ((n - 1) \div 3) + 1
            c == (n - 1) % 3
        IN  <<4 + r, 5 + c, v, v>>]

\* v * choices[4 + r][4 + c][v] for v in VALS for c in range(3)
MagicRowTerms(r) ==
    [n \in 1..27 |->
        LET v == ((n - 1) \div 3) + 1
            c == (n - 1) % 3
        IN  <<4 + r, 4 + c, v, MagicCoef(v)>>]

\* Variant: the column loop sums a row again
MagicColTermsAsRow(c) ==
    [n \in 1..27 |->
        LET v == ((n - 1) \div 3) + 1
            k == (n - 1) % 3
        IN  <<4 + c, 4 + k, v, v>>]

\* v * choices[4 + r][4 + c][v] for v in VALS for r in range(3)
MagicColTerms(c) ==
    [n \in 1..27 |->
        LET v == ((n - 1) \div 3) + 1
            r == (n - 1) % 3
        IN  <<4 + r, 4 + c, v, MagicCoef(v)>>]

\* v * choices[4 + d][4 + d][v] for d in range(3) for v in VALS
MagicDiagTerms ==
    [n \in 1..27 |->
        LET d == (n - 1) \div 9
            v == ((n - 1) % 9) + 1
        IN  <<4 + d, 4 + d, v, MagicCoef(v)>>]

\* v * choices[6 - d][4 + d][v] for d in range(3) for v in VALS
MagicAntiDiagTerms ==
    [n \in 1..27 |->
        LET d == (n - 1) \div 9
            v == ((n - 1) % 9) + 1
        IN  <<6 - d, 4 + d, v, MagicCoef(v)>>]

\* each sum, plus magic_square * -1, == 0
MagicConstraints ==
    {Con(MagicRowTerms(r), -1, "==", 0) : r \in Range3}
        \cup {Con(MagicColTerms(c), -1, "==", 0) : c \in Range3}
        \cup {Con(MagicDiagTerms, -1, "==", 0), Con(MagicAntiDiagTerms, -1, "==", 0)}

KNIGHTS_MOVES ==
    << <<-1, -2>>, <<-2, -1>>, <<-2, 1>>, <<-1, 2>>,
       <<1, 2>>, <<2, 1>>, <<2, -1>>, <<1, -2>> >>

\* Variant: the quotient is rounded down
Floor3(n) == n \div 3

\* math.ceil(n / 3)
Ceil3(n) == (n + 2) \div 3

isUsefulKnightsMove(r, c, r_off, c_off) ==
    LET r_tgt == r + r_off
        c_tgt == c + c_off
    IN  /\ 1 <= r_tgt /\ r_tgt <= 9
        /\ 1 <= c_tgt /\ c_tgt <= 9
        /\ (Ceil3(r) # Ceil3(r_tgt) \/ Ceil3(c) # Ceil3(c_tgt))

\* Variant: the two cells may both hold the digit
KnightConAtMostTwo(r, c, m, v) ==
    Con(<< <<r, c, v, 1>>,
           <<r + KNIGHTS_MOVES[m][1], c + KNIGHTS_MOVES[m][2], v, 1>> >>,
        0, "<=", 2)

\* expr = [choices[r][c][v], choices[r + r_off][c + c_off][v]]; lpSum(expr) <= 1
KnightCon(r, c, m, v) ==
    Con(<< <<r, c, v, 1>>,
           <<r + KNIGHTS_MOVES[m][1], c + KNIGHTS_MOVES[m][2], v, 1>> >>,
        0, "<=", 1)

\* The (r, c, move, v) for which the loop adds a constraint
KnightSites ==
    {q \in ROWS \X COLS \X (1..Len(KNIGHTS_MOVES)) \X VALS :
        isUsefulKnightsMove(q[1], q[2], KNIGHTS_MOVES[q[3]][1], KNIGHTS_MOVES[q[3]][2])}

KnightsConstraints == {KnightCon(q[1], q[2], q[3], q[4]) : q \in KnightSites}

knights_move_constraint_count == Cardinality(KnightSites)

\* Variant: row and column of a starting number are swapped
GivenConstraintsSwapped(g) == {Con(<< <<t[2], t[1], t[3], 1>> >>, 0, "==", 1) : t \in g}

\* prob += choices[r][c][v] == 1, for each starting number
GivenConstraints(g) == {Con(<< <<t[1], t[2], t[3], 1>> >>, 0, "==", 1) : t \in g}

\* The starting numbers of the script
ScriptGivens == {<<4, 1, 3>>, <<4, 2, 8>>, <<4, 3, 4>>, <<9, 9, 2>>}

\* The blocks of declarations, in the order of the script
PartNames == <<"cell", "row", "col", "box", "diag", "magic", "knight">>

AllParts == {PartNames[i] : i \in 1..Len(PartNames)}

Block(name) ==
    CASE name = "cell"   -> CellConstraints
      [] name = "row"    -> RowConstraints
      [] name = "col"    -> ColConstraints
      [] name = "box"    -> BoxConstraints
      [] name = "diag"   -> DiagConstraints
      [] name = "magic"  -> MagicConstraints
      [] name = "knight" -> KnightsConstraints

\* prob.constraints, for the blocks p and the starting numbers g
Prob(p, g) == UNION {Block(name) : name \in p} \cup GivenConstraints(g)

\* len(prob.constraints): every prob += adds one constraint under a fresh name
TotalConstraints(p, g) ==
    LET count(name) ==
            IF name = "knight" THEN knights_move_constraint_count
            ELSE Cardinality(Block(name))
        RECURSIVE upto(_)
        upto(i) == IF i = 0 THEN 0
                   ELSE upto(i - 1) + (IF PartNames[i] \in p THEN count(PartNames[i]) ELSE 0)
    IN  upto(Len(PartNames)) + Cardinality(g)

----------------------------------------------------------------------------
(* prob.solve(): a branching search over the variables of prob *)

\* The value of a variable the solver has not fixed
None == -1

\* The values the search tries for magic_square are 0..MaxMagic
MaxMagic == 27

\* The order in which the search fixes the cells of the whole grid
StaticOrder ==
    <<
       <<4, 1>>, <<4, 2>>, <<4, 3>>, <<9, 9>>, <<4, 4>>, <<4, 5>>, <<4, 6>>, <<5, 5>>, <<6, 4>>,
       <<6, 5>>, <<6, 6>>, <<5, 6>>, <<5, 4>>, <<3, 3>>, <<4, 7>>, <<4, 8>>, <<4, 9>>, <<6, 7>>,
       <<6, 9>>, <<6, 8>>, <<7, 7>>, <<6, 3>>, <<5, 7>>, <<5, 8>>, <<5, 9>>, <<3, 7>>, <<8, 8>>,
       <<2, 2>>, <<1, 1>>, <<6, 2>>, <<6, 1>>, <<5, 2>>, <<5, 3>>, <<5, 1>>, <<7, 3>>, <<7, 6>>,
       <<7, 8>>, <<8, 2>>, <<2, 8>>, <<9, 1>>, <<1, 9>>, <<7, 1>>, <<7, 9>>, <<3, 6>>, <<7, 2>>,
       <<7, 4>>, <<8, 5>>, <<7, 5>>, <<3, 4>>, <<2, 5>>, <<9, 5>>, <<8, 7>>, <<3, 1>>, <<3, 9>>,
       <<3, 2>>, <<3, 8>>, <<1, 2>>, <<9, 2>>, <<3, 5>>, <<1, 5>>, <<1, 8>>, <<9, 8>>, <<8, 4>>,
       <<9, 6>>, <<1, 6>>, <<2, 6>>, <<1, 4>>, <<2, 3>>, <<2, 4>>, <<8, 6>>, <<9, 4>>, <<2, 7>>,
       <<9, 7>>, <<1, 7>>, <<1, 3>>, <<2, 1>>, <<2, 9>>, <<8, 1>>, <<8, 9>>, <<8, 3>>, <<9, 3>>
    >>

\* The order in which it fixes the cells of the central block alone
MagicOrder ==
    << <<4, 4>>, <<4, 5>>, <<4, 6>>, <<5, 5>>, <<6, 4>>,
       <<6, 5>>, <<6, 6>>, <<5, 6>>, <<5, 4>> >>

GivenCells(g) == {<<t[1], t[2]>> : t \in g}

\* The cells that hold a starting number come first. Without the row blocks
\* the cells outside the central block are independent of magic_square, and
\* the search is over the central block.
Order(p, g) ==
    LET base == IF "row" \in p THEN StaticOrder ELSE MagicOrder
        isGiven(cell) == cell \in GivenCells(g)
        notGiven(cell) == cell \notin GivenCells(g)
    IN  SelectSeq(base, isGiven) \o SelectSeq(base, notGiven)

\* The index of a cell and of a binary, row by row
CellIdx(r, c) == (r - 1) * Cardinality(COLS) + c

VarIdx(r, c, v) == (CellIdx(r, c) - 1) * Cardinality(VALS) + v

\* The constraints of each block that mention a variable of the cell
\* (merged with the empty function so that the index is built once)
TouchCell ==
    [i \in 1..Len(PartNames) |->
        [n \in 1..Cardinality(Cells) |->
            {con \in Block(PartNames[i]) :
                \E cell \in CellsOf(con) : CellIdx(cell[1], cell[2]) = n}] @@ <<>>] @@ <<>>

\* The constraints of each block that mention the binary
Touch ==
    [i \in 1..Len(PartNames) |->
        [n \in 1..(Cardinality(Cells) * Cardinality(VALS)) |->
            {con \in TouchCell[i][((n - 1) \div Cardinality(VALS)) + 1] :
                \E var \in VarsOf(con) : VarIdx(var[1], var[2], var[3]) = n}] @@ <<>>] @@ <<>>

\* The value of the binary of a term
Val(ch, t) == ch[t[1]][t[2]][t[3]]

\* The least and the greatest value the sum of the terms can take: an
\* unfixed binary is between 0 and 1, and every coefficient of a binary in
\* prob is positive. (The sum of the coefficients of the terms that count is
\* the cardinality of the bag that holds each term as often as its coefficient.)
Lo(terms, ch) ==
    BagCardinality([i \in {j \in 1..Len(terms) : Val(ch, terms[j]) = 1} |-> terms[i][4]])

Hi(terms, ch) ==
    BagCardinality([i \in {j \in 1..Len(terms) : Val(ch, terms[j]) # 0} |-> terms[i][4]])

\* A node of the search is kept unless no value of the unfixed variables
\* satisfies the constraint. magic_square has no bounds: while it is not
\* fixed, a constraint that mentions it can always be satisfied.
NodeOK(con, ch, ms) ==
    IF con.ms # 0 /\ ms = None THEN TRUE
    ELSE /\ Lo(con.terms, ch) + con.ms * ms <= con.rhs
         /\ con.sense = "==" => Hi(con.terms, ch) + con.ms * ms >= con.rhs

\* Every constraint of prob that mentions the variable survives
VarOK(p, g, var, ch, ms) ==
    /\ \A i \in 1..Len(PartNames) :
          PartNames[i] \in p =>
              \A con \in Touch[i][VarIdx(var[1], var[2], var[3])] : NodeOK(con, ch, ms)
    /\ \A con \in GivenConstraints(g) : var \in VarsOf(con) => NodeOK(con, ch, ms)

\* Every binary of the constraint is fixed
AllFixed(con, ch) == \A i \in 1..Len(con.terms) : Val(ch, con.terms[i]) # None

\* The left-hand side of a constraint under a complete assignment
Lhs(con, ch, ms) == Lo(con.terms, ch) + con.ms * ms

Compare(sense, lhs, rhs) ==
    IF sense = "==" THEN lhs = rhs ELSE lhs <= rhs

\* The assignment satisfies the constraint
Holds(con, ch, ms) == Compare(con.sense, Lhs(con, ch, ms), con.rhs)

\* Every constraint of prob over fixed variables holds
Feasible(p, g, ch, ms) ==
    \A con \in Prob(p, g) : AllFixed(con, ch) => Holds(con, ch, ms)

\* for v in VALS: if value(choices[r][c][v]) == 1: write v
Digits(ch, r, c) == {v \in VALS : ch[r][c][v] = 1}

ColVal == [n \in 1..81 |-> <<((n - 1) \div 9) + 1, ((n - 1) % 9) + 1>>]

\* Variant: the loop over v is outside the loop over c
WrittenByDigit(ch, r) ==
    LET hit(p) == ch[r][p[2]][p[1]] = 1
        hits == SelectSeq(ColVal, hit)
    IN  [i \in 1..Len(hits) |-> hits[i][1]]

\* The digits written for row r, in the order of the loops over c and v
Written(ch, r) ==
    LET hit(p) == ch[r][p[1]][p[2]] = 1
        hits == SelectSeq(ColVal, hit)
    IN  [i \in 1..Len(hits) |-> hits[i][2]]

----------------------------------------------------------------------------
(* The inputs *)

\* Two starting numbers with the same row and digit in different columns
Clash(t, u) == t[1] = u[1] /\ t[3] = u[3] /\ t[2] # u[2]

Conflicting(g) == \E t \in g : \E u \in g : Clash(t, u)

Triples == ROWS \X COLS \X VALS

\* The starting numbers of the script; every pair of clashing starting numbers;
\* the starting numbers of the script with one more that clashes with them
GivenSets ==
    {ScriptGivens}
        \cup UNION {{{t, u} : u \in {w \in Triples : Clash(t, w)}} : t \in Triples}
        \cup {ScriptGivens \cup {u} :
                u \in {w \in Triples : \E t \in ScriptGivens : Clash(t, w)}}

NoChoices == [r \in ROWS |-> [c \in COLS |-> [v \in VALS |-> None]]]

InitWith(gs, p) ==
    /\ givens \in gs
    /\ parts = p
    /\ choices = NoChoices
    /\ magic_square = None
    /\ order = Order(p, givens)
    /\ fixed = 0
    /\ magicAt = None
    /\ back = FALSE
    /\ found = FALSE
    /\ status = "Not Solved"
    /\ sudokuout = <<>>

\* The script: its own starting numbers and every block
Init == InitWith({ScriptGivens}, AllParts)

\* Any of the sets of starting numbers, and every block
InitGivens == InitWith(GivenSets, AllParts)

\* No starting numbers, and only the blocks that decide magic_square
MagicParts == {"cell", "box", "magic"}

InitMagic == InitWith({{}}, MagicParts)

----------------------------------------------------------------------------
(* The steps of the search *)

\* The number of binaries the search fixes
NumVars(ord) == Cardinality(VALS) * Len(ord)

\* The next binary in the branching order: the cells in order, v ascending
NextVar(ord, n) ==
    <<ord[(n \div Cardinality(VALS)) + 1][1], ord[(n \div Cardinality(VALS)) + 1][2], (n % Cardinality(VALS)) + 1>>

\* magic_square is fixed as soon as a constraint that mentions it has all its
\* binaries fixed, and at the latest when every binary is
MagicDue(p, ord, ch, ms, n) ==
    /\ ms = None
    /\ \/ n = NumVars(ord)
       \/ "magic" \in p /\ \E con \in MagicConstraints : AllFixed(con, ch)

\* The node survives with the binary fixed to b
Survives(p, g, ch, var, ms, b) ==
    \A fixedTo \in {[ch EXCEPT ![var[1]][var[2]][var[3]] = b]} :
        VarOK(p, g, var, fixedTo, ms)

\* The least value from lowest up with which the node survives, if any:
\* the search tries 0 before 1
NextValue(p, g, ch, var, ms, lowest) ==
    IF lowest <= 0 /\ Survives(p, g, ch, var, ms, 0) THEN 0
    ELSE IF lowest <= 1 /\ Survives(p, g, ch, var, ms, 1) THEN 1
    ELSE None

Least(S) == CHOOSE x \in S : \A y \in S : x <= y

\* The least value of magic_square from lowest up with which the node
\* survives, if any
NextMagic(p, ch, lowest) ==
    LET cand == {m \in lowest..MaxMagic :
                    "magic" \in p => \A con \in MagicConstraints : NodeOK(con, ch, m)}
    IN  IF cand = {} THEN None ELSE Least(cand)

\* Every variable is fixed and every constraint of prob holds
Complete(p, g, ord, ch, ms, n) ==
    /\ ms # None
    /\ n = NumVars(ord)
    /\ Feasible(p, g, ch, ms)

\* The node has no child to go down to
Bottom(p, g, ord, ch, ms, n) ==
    IF MagicDue(p, ord, ch, ms, n) THEN NextMagic(p, ch, 0) = None
    ELSE IF n < NumVars(ord) THEN NextValue(p, g, ch, NextVar(ord, n), ms, 0) = None
    ELSE TRUE

\* The solver fixes the next binary
FixVar ==
    /\ status = "Not Solved"
    /\ ~back
    /\ fixed < NumVars(order)
    /\ ~MagicDue(parts, order, choices, magic_square, fixed)
    /\ \E var \in {NextVar(order, fixed)} :
          \E b \in {NextValue(parts, givens, choices, var, magic_square, 0)} :
              /\ b # None
              /\ choices' = [choices EXCEPT ![var[1]][var[2]][var[3]] = b]
    /\ fixed' = fixed + 1
    /\ UNCHANGED <<givens, parts, magic_square, order, magicAt, back, found,
                   status, sudokuout>>

\* The solver fixes magic_square
FixMagic ==
    /\ status = "Not Solved"
    /\ ~back
    /\ MagicDue(parts, order, choices, magic_square, fixed)
    /\ \E m \in {NextMagic(parts, choices, 0)} :
          /\ m # None
          /\ magic_square' = m
    /\ magicAt' = fixed
    /\ UNCHANGED <<givens, parts, choices, order, fixed, back, found, status, sudokuout>>

\* The search goes back one step: it gives the variable fixed last its next
\* value and goes down again, or unfixes it and goes further back. A node
\* that satisfies every constraint may be passed over this way.
Backtrack ==
    /\ status = "Not Solved"
    /\ IF back THEN ~(fixed = 0 /\ magic_square = None)
       ELSE Bottom(parts, givens, order, choices, magic_square, fixed)
    /\ found' = IF back THEN found
                ELSE (found \/ Complete(parts, givens, order, choices, magic_square, fixed))
    /\ IF magic_square # None /\ magicAt = fixed
       THEN \E m \in {NextMagic(parts, choices, magic_square + 1)} :
                /\ magic_square' = m
                /\ magicAt' = (IF m = None THEN None ELSE magicAt)
                /\ back' = (m = None)
                /\ UNCHANGED <<choices, fixed>>
       ELSE IF fixed > 0
       THEN \E var \in {NextVar(order, fixed - 1)} :
                \E b \in {NextValue(parts, givens, choices, var, magic_square,
                                    Val(choices, var) + 1)} :
                    /\ choices' = [choices EXCEPT ![var[1]][var[2]][var[3]] = b]
                    /\ fixed' = (IF b = None THEN fixed - 1 ELSE fixed)
                    /\ back' = (b = None)
                    /\ UNCHANGED <<magic_square, magicAt>>
       ELSE /\ back' = TRUE
            /\ UNCHANGED <<choices, fixed, magic_square, magicAt>>
    /\ UNCHANGED <<givens, parts, order, status, sudokuout>>

\* Every binary is 0
AllZero == [r \in ROWS |-> [c \in COLS |-> [v \in VALS |-> 0]]]

\* The binaries of the starting numbers are 1, the others 0
GivensOnly(g) ==
    [r \in ROWS |-> [c \in COLS |-> [v \in VALS |-> IF <<r, c, v>> \in g THEN 1 ELSE 0]]]

\* What the solver leaves in the variables when it finds prob infeasible is
\* not decided by the script: the variables stay unassigned, or are all 0,
\* or hold the last point the solver looked at
Leftovers(g) == {<<NoChoices, None>>, <<AllZero, 0>>, <<GivensOnly(g), 0>>}

\* How prob.solve() can end at this node
Verdicts(p, g, ord, ch, ms, n, bk, fnd) ==
    IF ~bk
    THEN IF Complete(p, g, ord, ch, ms, n) THEN {"Optimal"} ELSE {}
    ELSE IF n = 0 /\ ms = None /\ ~fnd THEN {"Infeasible"} ELSE {}

\* prob.solve() returns and the script writes the report, whatever the status
Finish ==
    /\ status = "Not Solved"
    /\ \E verdict \in Verdicts(parts, givens, order, choices, magic_square, fixed,
                               back, found) :
          /\ status' = verdict
          /\ \E left \in (IF verdict = "Optimal" THEN {<<choices, magic_square>>}
                          ELSE Leftovers(givens)) :
                /\ choices' = left[1]
                /\ magic_square' = left[2]
                /\ sudokuout' =
                      [grid |-> [r \in ROWS |-> Written(left[1], r)],
                       magic |-> left[2],
                       knights |-> knights_move_constraint_count,
                       total |-> TotalConstraints(parts, givens)]
    /\ UNCHANGED <<givens, parts, order, fixed, magicAt, back, found>>

Next == FixVar \/ FixMagic \/ Backtrack \/ Finish

Spec == Init /\ [][Next]_vars

SpecGivens == InitGivens /\ [][Next]_vars

SpecMagic == InitMagic /\ [][Next]_vars

----------------------------------------------------------------------------
(* The grid documented at the end of the script *)

RefGrid ==
    << <<8, 4, 3, 5, 6, 7, 2, 1, 9>>,
       <<2, 7, 5, 9, 1, 3, 8, 4, 6>>,
       <<6, 1, 9, 4, 2, 8, 3, 7, 5>>,
       <<3, 8, 4, 6, 7, 2, 9, 5, 1>>,
       <<7, 2, 6, 1, 5, 9, 4, 8, 3>>,
       <<9, 5, 1, 8, 3, 4, 6, 2, 7>>,
       <<5, 3, 7, 2, 8, 6, 1, 9, 4>>,
       <<4, 6, 2, 7, 9, 1, 5, 3, 8>>,
       <<1, 9, 8, 3, 4, 5, 7, 6, 2>> >>

\* The assignment of the binaries that encodes a grid
Encode(grid) ==
    [r \in ROWS |-> [c \in COLS |-> [v \in VALS |-> IF grid[r][c] = v THEN 1 ELSE 0]]]

----------------------------------------------------------------------------
(* Vocabulary of the properties *)

Solved == status = "Optimal"

\* The written grid has a digit for every cell
FullGrid == \A r \in ROWS : Len(sudokuout.grid[r]) = Cardinality(COLS)

\* The squares of box b, as a set
BoxCells(b) == {BOXES[b][n] : n \in 1..Len(BOXES[b])}

\* The box of BOXES that lists a cell, by the index of the cell
BoxOf ==
    [n \in 1..Cardinality(Cells) |->
        CHOOSE k \in 1..Len(BOXES) :
            \E i \in 1..Len(BOXES[k]) : CellIdx(BOXES[k][i][1], BOXES[k][i][2]) = n]
        @@ <<>>

SameBox(a, b) == BoxOf[CellIdx(a[1], a[2])] = BoxOf[CellIdx(b[1], b[2])]

\* The binary the search fixed last, if it fixed it to 1
Placed ==
    {var \in (IF fixed = 0 THEN {} ELSE {NextVar(order, fixed - 1)}) :
        Val(choices, var) = 1}

\* All binaries of the cell are fixed
Decided(ch, cell) == \A v \in VALS : ch[cell[1]][cell[2]][v] # None

InGrid(cell) == cell \in Cells

Target(cell, m) == <<cell[1] + KNIGHTS_MOVES[m][1], cell[2] + KNIGHTS_MOVES[m][2]>>

\* Every in-bounds knight's move, as <<source, target>>
AllKnightPairs ==
    {<<cell, Target(cell, m)>> : cell \in Cells, m \in 1..Len(KNIGHTS_MOVES)}
        \cap (Cells \X Cells)

\* The in-bounds knight's moves between different boxes
CrossBoxKnightPairs == {p \in AllKnightPairs : ~SameBox(p[1], p[2])}

\* The rows, the columns and the two diagonals of the central block
MagicLines ==
    {{<<r, c>> : c \in 4..6} : r \in 4..6}
        \cup {{<<r, c>> : r \in 4..6} : c \in 4..6}
        \cup {{<<4, 4>>, <<5, 5>>, <<6, 6>>}, {<<6, 4>>, <<5, 5>>, <<4, 6>>}}

\* The digit of a cell that has one
DigitAt(ch, cell) == CHOOSE v \in VALS : ch[cell[1]][cell[2]][v] = 1

\* The sum of the digits of three cells a, b, c of the written grid
GridSum(line) ==
    LET a == CHOOSE x \in line : TRUE
        b == CHOOSE x \in line \ {a} : TRUE
        c == CHOOSE x \in line \ {a, b} : TRUE
    IN  sudokuout.grid[a[1]][a[2]] + sudokuout.grid[b[1]][b[2]]
            + sudokuout.grid[c[1]][c[2]]

NodeSum(ch, line) ==
    LET a == CHOOSE x \in line : TRUE
        b == CHOOSE x \in line \ {a} : TRUE
        c == CHOOSE x \in line \ {a, b} : TRUE
    IN  DigitAt(ch, a) + DigitAt(ch, b) + DigitAt(ch, c)

----------------------------------------------------------------------------
(* Properties *)

\* C1: every assignment that satisfies all constraints of the script encodes
\* a grid with exactly one digit in each cell, in which every row, every
\* column and every box of BOXES contains each digit exactly once. (At every
\* node of the search the digit placed last is the only digit of its cell
\* and occurs nowhere else in its row, its column and its box.)
C1_RowsColsBoxes ==
    /\ \A x \in Placed :
          /\ Digits(choices, x[1], x[2]) = {x[3]}
          /\ {c \in COLS : choices[x[1]][c][x[3]] = 1} = {x[2]}
          /\ {r \in ROWS : choices[r][x[2]][x[3]] = 1} = {x[1]}
          /\ {cell \in BoxCells(BoxOf[CellIdx(x[1], x[2])]) :
                  choices[cell[1]][cell[2]][x[3]] = 1} = {<<x[1], x[2]>>}
    /\ Solved =>
          /\ \A cell \in Cells : Cardinality(Digits(choices, cell[1], cell[2])) = 1
          /\ FullGrid
          /\ \A v \in VALS :
                /\ \A r \in ROWS :
                      Cardinality({c \in COLS : sudokuout.grid[r][c] = v}) = 1
                /\ \A c \in COLS :
                      Cardinality({r \in ROWS : sudokuout.grid[r][c] = v}) = 1
                /\ \A b \in 1..Len(BOXES) :
                      Cardinality({cell \in BoxCells(b) :
                                      sudokuout.grid[cell[1]][cell[2]] = v}) = 1

C1_Witness ==
    /\ Solved
    /\ givens = ScriptGivens
    /\ FullGrid
    /\ \A b \in 1..Len(BOXES) :
          {sudokuout.grid[cell[1]][cell[2]] : cell \in BoxCells(b)} = VALS

\* C2: in every assignment that satisfies all constraints of the script, the
\* main diagonal (d, d) and the anti-diagonal (10 - d, d) each contain every
\* digit exactly once. (At every node a digit placed last on a diagonal
\* occurs nowhere else on that diagonal.)
C2_Diagonals ==
    /\ \A x \in Placed :
          /\ x[1] = x[2] =>
                {d \in DIAGONAL : choices[d][d][x[3]] = 1} = {x[2]}
          /\ x[1] = 10 - x[2] =>
                {d \in DIAGONAL : choices[10 - d][d][x[3]] = 1} = {x[2]}
    /\ Solved =>
          /\ FullGrid
          /\ \A v \in VALS :
                /\ Cardinality({d \in DIAGONAL : sudokuout.grid[d][d] = v}) = 1
                /\ Cardinality({d \in DIAGONAL : sudokuout.grid[10 - d][d] = v}) = 1

C2_Witness ==
    /\ Solved
    /\ {sudokuout.grid[d][d] : d \in DIAGONAL} = VALS
    /\ {sudokuout.grid[10 - d][d] : d \in DIAGONAL} = VALS

\* C3: in every assignment that satisfies all constraints of the script, the
\* two cells of every in-bounds knight's move between different boxes hold
\* different digits. (At every node the digit placed last is in no cell a
\* knight's move away in another box.)
C3_KnightsMoves ==
    /\ \A x \in Placed : \A m \in 1..Len(KNIGHTS_MOVES) :
          \A t \in {Target(<<x[1], x[2]>>, m)} :
              (InGrid(t) /\ ~SameBox(<<x[1], x[2]>>, t)) => choices[t[1]][t[2]][x[3]] # 1
    /\ Solved =>
          /\ FullGrid
          /\ \A p \in CrossBoxKnightPairs :
                sudokuout.grid[p[1][1]][p[1][2]] # sudokuout.grid[p[2][1]][p[2][2]]

C3_Witness ==
    /\ Solved
    /\ CrossBoxKnightPairs # {}
    /\ \A p \in CrossBoxKnightPairs :
          sudokuout.grid[p[1][1]][p[1][2]] # sudokuout.grid[p[2][1]][p[2][2]]

\* C4: in every assignment that satisfies all constraints of the script, the
\* digit sums of the three rows, the three columns and the two diagonals of
\* the central block all equal the reported magic-square sum. (At every node
\* where magic_square is fixed and no cell is half decided, each of these
\* lines whose cells are all decided sums to magic_square.)
C4_MagicSums ==
    /\ (magic_square # None /\ fixed % Cardinality(VALS) = 0) =>
          \A line \in MagicLines :
              (\A cell \in line : Decided(choices, cell)) =>
                  NodeSum(choices, line) = magic_square
    /\ Solved =>
          /\ FullGrid
          /\ sudokuout.magic = magic_square
          /\ \A line \in MagicLines : GridSum(line) = sudokuout.magic

C4_Witness ==
    /\ Solved
    /\ Cardinality(MagicLines) = 8
    /\ \A line \in MagicLines : GridSum(line) = sudokuout.magic

\* C5: every starting number appears unchanged in the output grid: with the
\* starting numbers of the script, cell (4,1) is 3, (4,2) is 8, (4,3) is 4
\* and (9,9) is 2. (No node of the search rules a starting number out.)
C5_Givens ==
    /\ \A t \in givens : choices[t[1]][t[2]][t[3]] # 0
    /\ Solved =>
          /\ FullGrid
          /\ \A t \in givens : sudokuout.grid[t[1]][t[2]] = t[3]
          /\ givens = ScriptGivens =>
                /\ sudokuout.grid[4][1] = 3
                /\ sudokuout.grid[4][2] = 8
                /\ sudokuout.grid[4][3] = 4
                /\ sudokuout.grid[9][9] = 2

C5_Witness ==
    /\ Solved
    /\ givens = {<<4, 1, 3>>, <<4, 2, 8>>, <<4, 3, 4>>, <<9, 9, 2>>}
    /\ <<sudokuout.grid[4][1], sudokuout.grid[4][2], sudokuout.grid[4][3]>> = <<3, 8, 4>>
    /\ sudokuout.grid[9][9] = 2

\* C6: with the starting numbers of the script the constraints are feasible:
\* the documented grid with magic sum 15 satisfies every constraint the
\* script adds to prob. (Checked on prob as built, before the search.)
C6_ReferenceFeasible ==
    fixed = 0 =>
        \A con \in Prob(parts, givens) : Holds(con, Encode(RefGrid), 15)

\* The search produces the documented grid with magic sum 15
C6_Witness ==
    /\ Solved
    /\ givens = ScriptGivens
    /\ choices = Encode(RefGrid)
    /\ magic_square = 15

\* C7: with two starting numbers of the same row and digit in different
\* columns no assignment satisfies the constraints, the solve outcome is
\* Infeasible and no grid is produced: the status is never Optimal and
\* nothing is written to sudokuout.
C7_InfeasibleNoGrid ==
    Conflicting(givens) => (status # "Optimal" /\ sudokuout = <<>>)

\* The status is Infeasible and the report is written, with a row that has
\* some digits but not nine
C7_Witness ==
    /\ Conflicting(givens)
    /\ status = "Infeasible"
    /\ sudokuout # <<>>
    /\ \E r \in ROWS : Len(sudokuout.grid[r]) \in 1..(Cardinality(COLS) - 1)

\* The part of C7 that the script meets: with such starting numbers no node
\* of the search holds both of them, no node is complete, and the status is
\* never Optimal.
C7_NeverOptimal ==
    Conflicting(givens) =>
        /\ status \in {"Not Solved", "Infeasible"}
        /\ ~found
        /\ status = "Not Solved" =>
              \A t \in givens : \A u \in givens :
                  Clash(t, u) =>
                      ~(choices[t[1]][t[2]][t[3]] = 1 /\ choices[u[1]][u[2]][u[3]] = 1)

\* C8: the puzzle with the starting numbers of the script has exactly one
\* solution: every assignment that satisfies all constraints encodes the
\* grid documented at the end of the script.
C8_UniqueSolution ==
    (Solved /\ givens = ScriptGivens) =>
        /\ choices = Encode(RefGrid)
        /\ \A r \in ROWS : sudokuout.grid[r] = RefGrid[r]

C8_Witness ==
    /\ Solved
    /\ givens = ScriptGivens
    /\ sudokuout.grid = [r \in ROWS |-> RefGrid[r]]

\* C9: skipping same-box knight's moves does not change feasibility: every
\* in-bounds knight's move that isUsefulKnightsMove rejects stays inside one
\* box of BOXES, and every assignment that satisfies the constraints of the
\* script also satisfies the at-most-one constraint of every in-bounds
\* knight's move, same-box moves included.
C9_SameBoxRedundant ==
    /\ fixed = 0 =>
          \A cell \in Cells : \A m \in 1..Len(KNIGHTS_MOVES) :
              (/\ InGrid(Target(cell, m))
               /\ ~isUsefulKnightsMove(cell[1], cell[2],
                                       KNIGHTS_MOVES[m][1], KNIGHTS_MOVES[m][2]))
                  => SameBox(cell, Target(cell, m))
    /\ Solved =>
          \A cell \in Cells : \A m \in 1..Len(KNIGHTS_MOVES) : \A v \in VALS :
              InGrid(Target(cell, m)) =>
                  Holds(KnightCon(cell[1], cell[2], m, v), choices, magic_square)

\* A solution, and a same-box knight's move the script adds no constraint for
C9_Witness ==
    /\ Solved
    /\ \E p \in AllKnightPairs :
          /\ SameBox(p[1], p[2])
          /\ \A m \in 1..Len(KNIGHTS_MOVES) :
                Target(p[1], m) = p[2] =>
                    \A v \in VALS : KnightCon(p[1][1], p[1][2], m, v) \notin KnightsConstraints
          /\ sudokuout.grid[p[1][1]][p[1][2]] # sudokuout.grid[p[2][1]][p[2][2]]

\* C10: magic_square has no bounds and is never fixed by the script, yet in
\* every assignment that satisfies the cell, box and magic-square
\* constraints it equals 15.
C10_MagicSumIs15 ==
    Solved => (magic_square = 15 /\ sudokuout.magic = 15)

C10_Witness ==
    /\ Solved
    /\ parts = MagicParts
    /\ givens = {}
    /\ sudokuout.magic = 15

====
